---- MODULE Spec2Model ----
(***************************************************************************)
(* Vehicle checkout / checkin lifecycle of the Asset-Management app.       *)
(*                                                                         *)
(* The persistence store (lumi.entities) holds the vehicle records, the    *)
(* vehicle_assignments collection and the vehicle_inspections collection.  *)
(* Every browser session mounts one page at a time (VehicleCheckout,       *)
(* VehicleCheckin, VehicleInspection); a page reads the vehicle once, when *)
(* it mounts (useVehicles.fetchVehicles), and its handler issues its       *)
(* persistence calls one after the other, each of which may throw.         *)
(***************************************************************************)
EXTENDS Integers, Sequences, FiniteSets, TLC

\* ------------------------------------------------------------------ bounds
MaxMileage == 1
MaxAssignments == 2
MaxInspections == 1
MaxTrips == 1
MaxDamages == 2
MaxItems == 4
MaxPrevious == 2
MaxExcess == 2
MaxOdometer == 110

Vehicles == {"v1"}
Drivers == {"d1"}
Sessions == {"s1", "s2"}

\* ------------------------------------------------- JavaScript value helpers
\* The result of parseInt on a text without a leading number.
NaN == -1000

Digits == <<"0", "1", "2", "3", "4", "5", "6", "7", "8", "9">>

IsDigit(c) == \E d \in 1..10 : Digits[d] = c

DigitVal(c) == (CHOOSE d \in 1..10 : Digits[d] = c) - 1

RECURSIVE ParseDigits(_, _)
ParseDigits(t, acc) ==
    IF t = <<>> \/ ~IsDigit(Head(t))
    THEN acc
    ELSE ParseDigits(Tail(t), acc * 10 + DigitVal(Head(t)))

\* parseInt(text): optional sign, then the longest prefix of digits; NaN
\* when there is no digit.
parseInt(t) ==
    LET neg  == t # <<>> /\ Head(t) = "-"
        body == IF neg THEN Tail(t) ELSE t
    IN  IF body = <<>> \/ ~IsDigit(Head(body))
        THEN NaN
        ELSE IF neg THEN 0 - ParseDigits(body, 0) ELSE ParseDigits(body, 0)

RECURSIVE NatToText(_)
NatToText(n) ==
    IF n < 10 THEN <<Digits[n + 1]>>
    ELSE NatToText(n \div 10) \o <<Digits[(n % 10) + 1]>>

\* Number.prototype.toString() of an integer.
toString(n) == IF n < 0 THEN <<"-">> \o NatToText(0 - n) ELSE NatToText(n)

\* a < b in JavaScript: false as soon as one side is NaN.
JsLess(a, b) == a # NaN /\ b # NaN /\ a < b

\* a - b in JavaScript.
JsMinus(a, b) == IF a = NaN \/ b = NaN THEN NaN ELSE a - b

\* a || 0 for a number a.
OrZero(a) == IF a = NaN THEN 0 ELSE a

\* store.update(id, patch): the patch's fields replace or extend the record's.
Merge(rec, patch) ==
    [k \in DOMAIN rec \cup DOMAIN patch |->
        IF k \in DOMAIN patch THEN patch[k] ELSE rec[k]]

\* null / undefined
Null == [null |-> TRUE]

\* ------------------------------------------------------------ input sets
\* What a user can leave in an <input type="number"> for a mileage.
MileageTexts == {<<>>} \cup {toString(n) : n \in 0..MaxMileage}

\* The fuel level the users of this model type.
FuelTexts == {toString(55)}

\* A free-text field: left empty, or filled.
Texts == {"", "x"}

\* The condition the users of this model select.
Conditions == {"good"}

\* -------------------------------------------------------------- the state
\* Toasts are output only and timestamps, voice notes, trip notes and the
\* estimated return date are copied into records that nothing reads: none
\* of them is state here.
VARIABLES
    vehicles,           \* store: vehicle records by id
    assignments,        \* store: vehicle_assignments, _id = position
    inspections,        \* store: vehicle_inspections
    page,               \* per session: the mounted page
    id,                 \* per session: the :id route parameter
    vehicle,            \* per session: the vehicle found when the page mounted
    currentAssignment,  \* per session (checkin): the loaded active assignment
    loadingAssignment,  \* per session (checkin): loadCurrentAssignment in flight
    pc,                 \* per session: the call the submit handler awaits
    form,               \* per session: the field values the running handler closed over
    probe               \* a call observed from outside: what was asked, what came back

store == <<vehicles, assignments, inspections>>
vars == <<vehicles, assignments, inspections, page, id, vehicle,
          currentAssignment, loadingAssignment, pc, form, probe>>

NoForm == [none |-> TRUE]

\* No call is being observed.
NoProbe == [none |-> TRUE]

Init ==
    /\ vehicles = [v \in Vehicles |->
                     [status |-> "available", currentDriverId |-> "",
                      currentMileage |-> 0, fuelLevel |-> 70,
                      nextServiceOdometer |-> 1]]
    /\ assignments = <<>>
    /\ inspections = <<>>
    /\ page = [s \in Sessions |-> "none"]
    /\ id = [s \in Sessions |-> ""]
    /\ vehicle = [s \in Sessions |-> Null]
    /\ currentAssignment = [s \in Sessions |-> Null]
    /\ loadingAssignment = [s \in Sessions |-> FALSE]
    /\ pc = [s \in Sessions |-> "idle"]
    /\ form = [s \in Sessions |-> NoForm]
    /\ probe = NoProbe

\* ------------------------------------------------------- session plumbing
\* A page mounts: useVehicles fetches the list once and the page's effect
\* picks the vehicle with the route's id.  Of the vehicle found the pages
\* read the status (and the ids, which are the route's).  VehicleCheckin
\* also starts loadCurrentAssignment, whose result only the form reads.
Mount(s, p, v) ==
    /\ page' = [page EXCEPT ![s] = p]
    /\ id' = [id EXCEPT ![s] = v]
    /\ vehicle' = [vehicle EXCEPT ![s] = [status |-> vehicles[v].status]]
    /\ currentAssignment' = [currentAssignment EXCEPT ![s] = Null]
    /\ loadingAssignment' = [loadingAssignment EXCEPT ![s] =
                               (p = "checkin" /\ vehicles[v].status = "in_use")]
    /\ pc' = [pc EXCEPT ![s] = "idle"]
    /\ form' = [form EXCEPT ![s] = NoForm]
    /\ UNCHANGED store

\* A failed fetch leaves the list empty and the vehicle null: the page
\* shows "Vehicle Not Found" and offers nothing but the way back.
NotFound(s) == UNCHANGED vars

\* The page unmounts (navigate after the success toast, or the user
\* leaves): its state is dropped.
Leave(s) ==
    /\ page' = [page EXCEPT ![s] = "none"]
    /\ id' = [id EXCEPT ![s] = ""]
    /\ vehicle' = [vehicle EXCEPT ![s] = Null]
    /\ currentAssignment' = [currentAssignment EXCEPT ![s] = Null]
    /\ loadingAssignment' = [loadingAssignment EXCEPT ![s] = FALSE]
    /\ pc' = [pc EXCEPT ![s] = "idle"]
    /\ form' = [form EXCEPT ![s] = NoForm]

\* The handler's catch and finally: the call threw and wrote nothing; an
\* error toast, setSubmitting(false), the page stays.
Failed(s) ==
    /\ pc' = [pc EXCEPT ![s] = "idle"]
    /\ form' = [form EXCEPT ![s] = NoForm]
    /\ UNCHANGED <<store, page, id, vehicle, currentAssignment, loadingAssignment>>

\* The handler returns before its try block with an error toast.
Rejected(s) == UNCHANGED vars

\* The handler awaits its next persistence call.
Await(s, label, f) ==
    /\ pc' = [pc EXCEPT ![s] = label]
    /\ form' = [form EXCEPT ![s] = f]
    /\ UNCHANGED <<page, id, vehicle, currentAssignment, loadingAssignment>>

\* --------------------------------------------------------- VehicleCheckout
OpenCheckout(s) ==
    /\ UNCHANGED probe
    /\ page[s] = "none"
    /\ \E v \in Vehicles, fetched \in BOOLEAN :
        IF fetched THEN Mount(s, "checkout", v) ELSE NotFound(s)

CheckoutForms(fuels) ==
    [selectedDriverId : Drivers \cup {""}, startingMileage : MileageTexts,
     fuelLevel : fuels, destination : Texts, tripPurpose : Texts,
     signature : Texts]

\* The page renders its form only for a found vehicle whose status, as
\* fetched at mount, is 'available'.
CheckoutFormShown(s) ==
    /\ page[s] = "checkout"
    /\ vehicle[s] # Null
    /\ vehicle[s].status = "available"

\* disabled= of the "Complete Checkout" button.
CheckoutButtonDisabled(submitting, f) ==
    \/ submitting
    \/ f.selectedDriverId = ""
    \/ f.startingMileage = <<>>
    \/ f.destination = ""
    \/ f.tripPurpose = ""
    \/ f.signature = ""

\* The two field checks at the head of handleCheckout.
CheckoutFieldsMissing(f) ==
    \/ f.selectedDriverId = "" \/ f.startingMileage = <<>>
    \/ f.destination = "" \/ f.tripPurpose = ""
    \/ f.signature = ""

\* The record handleCheckout creates in vehicle_assignments.
assignmentData(v, f) ==
    [vehicleId |-> v,
     driverId |-> f.selectedDriverId,
     assignmentType |-> "checkout",
     startingMileage |-> parseInt(f.startingMileage),
     fuelLevelStart |-> parseInt(f.fuelLevel),
     destination |-> f.destination,
     tripPurpose |-> f.tripPurpose,
     digitalSignature |-> f.signature,
     status |-> "active"]

\* The patch handleCheckout applies to the vehicle.
CheckoutVehiclePatch(f) ==
    [status |-> "in_use",
     currentDriverId |-> f.selectedDriverId,
     currentMileage |-> parseInt(f.startingMileage),
     fuelLevel |-> parseInt(f.fuelLevel)]

\* vehicle_assignments.create resolved: the record is in the store and
\* the handler awaits vehicles.update.
CheckoutAssignmentCreated(s, f) ==
    /\ assignments' = Append(assignments, assignmentData(id[s], f))
    /\ Await(s, "created", f)
    /\ UNCHANGED <<vehicles, inspections>>

\* A click on "Complete Checkout": the field checks, then the first
\* persistence call, vehicle_assignments.create.
HandleCheckout(s) ==
    /\ UNCHANGED probe
    /\ CheckoutFormShown(s)
    /\ Len(assignments) < MaxAssignments
    /\ \E f \in CheckoutForms(FuelTexts), ok \in BOOLEAN :
        /\ ~CheckoutButtonDisabled(pc[s] # "idle", f)
        /\ IF CheckoutFieldsMissing(f) THEN Rejected(s)
           ELSE IF ok THEN CheckoutAssignmentCreated(s, f)
           ELSE Failed(s)

\* vehicles.update of handleCheckout resolved: success toast, navigate.
CheckoutVehicleUpdated(s) ==
    /\ vehicles' = [vehicles EXCEPT ![id[s]] = Merge(@, CheckoutVehiclePatch(form[s]))]
    /\ Leave(s)
    /\ UNCHANGED <<assignments, inspections>>

\* The second persistence call of handleCheckout, vehicles.update.
CheckoutUpdateVehicle(s) ==
    /\ UNCHANGED probe
    /\ page[s] = "checkout"
    /\ pc[s] = "created"
    /\ \E ok \in BOOLEAN : IF ok THEN CheckoutVehicleUpdated(s) ELSE Failed(s)

\* ---------------------------------------------------------- VehicleCheckin
OpenCheckin(s) ==
    /\ UNCHANGED probe
    /\ page[s] = "none"
    /\ \E v \in Vehicles, fetched \in BOOLEAN :
        IF fetched THEN Mount(s, "checkin", v) ELSE NotFound(s)

\* vehicle_assignments.list({filter: {vehicleId, status: 'active'}})
ActiveAssignments(v) ==
    {i \in 1..Len(assignments) :
        assignments[i].vehicleId = v /\ assignments[i].status = "active"}

\* loadCurrentAssignment resolves: the first record of the list, whose
\* order the query does not fix; nothing is set for an empty list, and a
\* failed query is logged and leaves currentAssignment null.  A running
\* handler has closed over the currentAssignment of its render, so a
\* load that resolves meanwhile is seen by the next click only.
LoadCurrentAssignment(s) ==
    /\ UNCHANGED probe
    /\ page[s] = "checkin"
    /\ loadingAssignment[s]
    /\ pc[s] = "idle"
    /\ loadingAssignment' = [loadingAssignment EXCEPT ![s] = FALSE]
    /\ \E ok \in BOOLEAN :
        IF ok /\ ActiveAssignments(id[s]) # {}
        THEN \E i \in ActiveAssignments(id[s]) :
                currentAssignment' = [currentAssignment EXCEPT ![s] =
                    [_id |-> i, startingMileage |-> assignments[i].startingMileage,
                     driverId |-> assignments[i].driverId]]
        ELSE UNCHANGED currentAssignment
    /\ UNCHANGED <<store, page, id, vehicle, pc, form>>

\* The damage description is typed in a field shown once damage is ticked.
CheckinForms(fuels) ==
    {f \in [endingMileage : MileageTexts, fuelLevel : fuels,
            vehicleCondition : Conditions, damageReported : BOOLEAN,
            damageDescription : Texts, signature : Texts] :
        f.damageReported \/ f.damageDescription = ""}

\* The page renders its form only for a found vehicle whose status, as
\* fetched at mount, is 'in_use'.
CheckinFormShown(s) ==
    /\ page[s] = "checkin"
    /\ vehicle[s] # Null
    /\ vehicle[s].status = "in_use"

\* The button's condition without its clause on the damage description.
CheckinButtonDisabled_DamageUndescribed(submitting, f) ==
    \/ submitting
    \/ f.endingMileage = <<>>
    \/ f.signature = ""

\* disabled= of the "Complete Check-in" button.
CheckinButtonDisabled(submitting, f) ==
    \/ submitting
    \/ f.endingMileage = <<>>
    \/ f.signature = ""
    \/ (f.damageReported /\ f.damageDescription = "")

\* The field check at the head of handleCheckin.
CheckinFieldsMissing(f) == f.endingMileage = <<>> \/ f.signature = ""

\* currentAssignment?.startingMileage || 0
startMileage(ca) == IF ca = Null THEN 0 ELSE OrZero(ca.startingMileage)

\* The mileage check of handleCheckin.
EndingBelowStarting(ca, f) == JsLess(parseInt(f.endingMileage), startMileage(ca))

\* The assignment patch with the ending odometer stored as the distance.
CheckinAssignmentPatch_NoSubtraction(ca, f) ==
    [endingMileage |-> parseInt(f.endingMileage),
     fuelLevelEnd |-> parseInt(f.fuelLevel),
     vehicleCondition |-> f.vehicleCondition,
     damageReported |-> f.damageReported,
     damageDescription |-> f.damageDescription,
     returnSignature |-> f.signature,
     status |-> "completed",
     totalMileage |-> parseInt(f.endingMileage)]

\* The patch handleCheckin applies to the current assignment.
CheckinAssignmentPatch(ca, f) ==
    [endingMileage |-> parseInt(f.endingMileage),
     fuelLevelEnd |-> parseInt(f.fuelLevel),
     vehicleCondition |-> f.vehicleCondition,
     damageReported |-> f.damageReported,
     damageDescription |-> f.damageDescription,
     returnSignature |-> f.signature,
     status |-> "completed",
     totalMileage |-> JsMinus(parseInt(f.endingMileage), startMileage(ca))]

\* The patch handleCheckin applies to the vehicle.
CheckinVehiclePatch(f) ==
    [status |-> "available",
     currentDriverId |-> "",
     currentMileage |-> parseInt(f.endingMileage),
     fuelLevel |-> parseInt(f.fuelLevel)]

\* The post-trip inspection handleCheckin creates when damage was reported.
CheckinInspection(v, ca, f) ==
    [vehicleId |-> v,
     inspectionType |-> "post_trip",
     inspectorId |-> IF ca = Null \/ ca.driverId = "" THEN "unknown" ELSE ca.driverId,
     mileageAtInspection |-> parseInt(f.endingMileage),
     fuelLevel |-> parseInt(f.fuelLevel),
     overallCondition |-> f.vehicleCondition,
     damageReported |-> TRUE,
     notes |-> f.damageDescription]

\* vehicle_assignments.update resolved: the handler awaits vehicles.update.
CheckinAssignmentUpdated(s, f) ==
    /\ assignments' = [assignments EXCEPT ![currentAssignment[s]._id] =
                          Merge(@, CheckinAssignmentPatch(currentAssignment[s], f))]
    /\ Await(s, "assignmentUpdated", f)
    /\ UNCHANGED <<vehicles, inspections>>

\* vehicles.update of handleCheckin resolved: the inspection create is
\* next when damage was reported, else the success toast and navigate.
CheckinVehicleUpdated(s, f) ==
    /\ vehicles' = [vehicles EXCEPT ![id[s]] = Merge(@, CheckinVehiclePatch(f))]
    /\ IF f.damageReported THEN Await(s, "vehicleUpdated", f) ELSE Leave(s)
    /\ UNCHANGED <<assignments, inspections>>

\* A click on "Complete Check-in": the field and mileage checks, then the
\* first persistence call: vehicle_assignments.update when an assignment
\* was loaded, vehicles.update otherwise.
HandleCheckin(s) ==
    /\ UNCHANGED probe
    /\ CheckinFormShown(s)
    /\ \E f \in CheckinForms(FuelTexts), ok \in BOOLEAN :
        /\ ~CheckinButtonDisabled(pc[s] # "idle", f)
        /\ IF CheckinFieldsMissing(f) THEN Rejected(s)
           ELSE IF EndingBelowStarting(currentAssignment[s], f) THEN Rejected(s)
           ELSE IF ~ok THEN Failed(s)
           ELSE IF currentAssignment[s] # Null THEN CheckinAssignmentUpdated(s, f)
           ELSE CheckinVehicleUpdated(s, f)

\* vehicles.update of handleCheckin, after the assignment update.
CheckinUpdateVehicle(s) ==
    /\ UNCHANGED probe
    /\ page[s] = "checkin"
    /\ pc[s] = "assignmentUpdated"
    /\ \E ok \in BOOLEAN : IF ok THEN CheckinVehicleUpdated(s, form[s]) ELSE Failed(s)

\* vehicle_inspections.create of handleCheckin resolved: success toast,
\* navigate.
CheckinInspectionCreated(s) ==
    /\ inspections' = Append(inspections,
            CheckinInspection(id[s], currentAssignment[s], form[s]))
    /\ Leave(s)
    /\ UNCHANGED <<vehicles, assignments>>

\* The last persistence call of handleCheckin when damage was reported.
CheckinCreateInspection(s) ==
    /\ UNCHANGED probe
    /\ page[s] = "checkin"
    /\ pc[s] = "vehicleUpdated"
    /\ Len(inspections) < MaxInspections
    /\ \E ok \in BOOLEAN : IF ok THEN CheckinInspectionCreated(s) ELSE Failed(s)

\* ------------------------------------------------------- VehicleInspection
OpenInspection(s) ==
    /\ UNCHANGED probe
    /\ page[s] = "none"
    /\ \E v \in Vehicles, fetched \in BOOLEAN :
        IF fetched THEN Mount(s, "inspection", v) ELSE NotFound(s)

\* The checklist questions of this model, of the page's nineteen.
ItemIds == {"ext_body"}

ItemStatuses == {"pass", "fail", "not_checked"}

\* The inspection type the users of this model select.
InspectionTypes == {"scheduled"}

InspectionForms(fuels) ==
    [currentMileage : MileageTexts, fuelLevel : fuels,
     inspectionType : InspectionTypes, overallCondition : Conditions,
     inspectionItems : [ItemIds -> ItemStatuses]]

\* The page renders its form for any found vehicle, whatever its status.
InspectionFormShown(s) ==
    /\ page[s] = "inspection"
    /\ vehicle[s] # Null

\* The field check at the head of handleSubmitInspection.
InspectionFieldsMissing(s, f) ==
    vehicle[s] = Null \/ f.currentMileage = <<>> \/ f.fuelLevel = <<>>

\* The record handleSubmitInspection creates in vehicle_inspections.
inspectionData(v, f) ==
    [vehicleId |-> v,
     inspectionType |-> f.inspectionType,
     inspectorId |-> "current_user",
     mileageAtInspection |-> parseInt(f.currentMileage),
     fuelLevel |-> parseInt(f.fuelLevel),
     overallCondition |-> f.overallCondition,
     damageReported |-> (\E i \in ItemIds : f.inspectionItems[i] = "fail"),
     inspectionItems |-> f.inspectionItems]

\* The patch handleSubmitInspection applies to the vehicle.
InspectionVehiclePatch(f) ==
    [currentMileage |-> parseInt(f.currentMileage),
     fuelLevel |-> parseInt(f.fuelLevel)]

\* vehicle_inspections.create resolved: the handler awaits vehicles.update.
InspectionCreated(s, f) ==
    /\ inspections' = Append(inspections, inspectionData(id[s], f))
    /\ Await(s, "inspectionCreated", f)
    /\ UNCHANGED <<vehicles, assignments>>

\* A click on "Complete Inspection" (disabled only while submitting): the
\* field check, then the first persistence call, vehicle_inspections.create.
HandleSubmitInspection(s) ==
    /\ UNCHANGED probe
    /\ InspectionFormShown(s)
    /\ pc[s] = "idle"
    /\ Len(inspections) < MaxInspections
    /\ \E f \in InspectionForms(FuelTexts), ok \in BOOLEAN :
        IF InspectionFieldsMissing(s, f) THEN Rejected(s)
        ELSE IF ok THEN InspectionCreated(s, f)
        ELSE Failed(s)

\* vehicles.update of handleSubmitInspection resolved: success toast,
\* navigate.
InspectionVehicleUpdated(s) ==
    /\ vehicles' = [vehicles EXCEPT ![id[s]] = Merge(@, InspectionVehiclePatch(form[s]))]
    /\ Leave(s)
    /\ UNCHANGED <<assignments, inspections>>

\* The second persistence call of handleSubmitInspection.
InspectionUpdateVehicle(s) ==
    /\ UNCHANGED probe
    /\ page[s] = "inspection"
    /\ pc[s] = "inspectionCreated"
    /\ \E ok \in BOOLEAN : IF ok THEN InspectionVehicleUpdated(s) ELSE Failed(s)

\* The user leaves a page, or closes the tab, at any point: a handler
\* that was awaiting a call issues no further call.
Close(s) ==
    /\ UNCHANGED probe
    /\ page[s] # "none"
    /\ Leave(s)
    /\ UNCHANGED store

\* ------------------------------------------------------ useVehicles hook
Statuses == {"available", "in_use", "maintenance", "out_of_service"}

\* updateVehicle(vehicleId, updates): vehicles.update with the patch.
updateVehicle(v, updates) ==
    /\ UNCHANGED probe
    /\ vehicles' = [vehicles EXCEPT ![v] = Merge(@, updates)]
    /\ UNCHANGED <<assignments, inspections, page, id, vehicle,
                   currentAssignment, loadingAssignment, pc, form>>

updateVehicleStatus(v) ==
    /\ v \in Vehicles
    /\ \E status \in Statuses : updateVehicle(v, [status |-> status])

assignDriver(v) ==
    /\ v \in Vehicles
    /\ \E driverId \in Drivers :
        updateVehicle(v, [currentDriverId |-> driverId, status |-> "in_use"])

releaseVehicle(v) ==
    /\ v \in Vehicles
    /\ updateVehicle(v, [currentDriverId |-> "", status |-> "available"])

\* -------------------------------------------------- service interval tracker
avgDailyKm == 50

\* Math.ceil(a / b) for a >= 0, b > 0.
CeilDiv(a, b) == (a + b - 1) \div b

\* getNextServiceInfo calling a vehicle overdue only past its service odometer.
getNextServiceInfo_PastOnly(veh) ==
    LET kmUntilService == veh.nextServiceOdometer - veh.currentOdometer
        isOverdue == kmUntilService < 0
    IN  [kmUntilService |-> kmUntilService,
         isOverdue |-> isOverdue,
         daysUntilService |-> IF isOverdue THEN 0 ELSE CeilDiv(kmUntilService, avgDailyKm)]

\* getNextServiceInfo(vehicle)
getNextServiceInfo(veh) ==
    LET kmUntilService == veh.nextServiceOdometer - veh.currentOdometer
        isOverdue == kmUntilService <= 0
    IN  [kmUntilService |-> kmUntilService,
         isOverdue |-> isOverdue,
         daysUntilService |-> IF isOverdue THEN 0 ELSE CeilDiv(kmUntilService, avgDailyKm)]

\* The stored vehicle as the service interval tracker reads it: its
\* current odometer is the vehicle's currentMileage.
ServiceView(v) ==
    [nextServiceOdometer |-> vehicles[v].nextServiceOdometer,
     currentOdometer |-> vehicles[v].currentMileage]

\* ------------------------------------------------------- specifications
Step(s) ==
    \/ OpenCheckout(s)
    \/ HandleCheckout(s)
    \/ CheckoutUpdateVehicle(s)
    \/ OpenCheckin(s)
    \/ LoadCurrentAssignment(s)
    \/ HandleCheckin(s)
    \/ CheckinUpdateVehicle(s)
    \/ CheckinCreateInspection(s)
    \/ OpenInspection(s)
    \/ HandleSubmitInspection(s)
    \/ InspectionUpdateVehicle(s)
    \/ Close(s)

\* Any number of sessions at once, their steps interleaved.
Next == \E s \in Sessions : Step(s)

Spec == Init /\ [][Next]_vars

\* One operation at a time: a single session.
SeqSessions == {"s1"}

NextSeq == \E s \in SeqSessions : Step(s)

SpecSeq == Init /\ [][NextSeq]_vars

\* One session that checks vehicles out and in, MaxTrips checkouts at most.
TripCheckout(s) ==
    /\ Len(assignments) < MaxTrips
    /\ HandleCheckout(s)

TripStep(s) ==
    \/ OpenCheckout(s)
    \/ TripCheckout(s)
    \/ CheckoutUpdateVehicle(s)
    \/ OpenCheckin(s)
    \/ LoadCurrentAssignment(s)
    \/ HandleCheckin(s)
    \/ CheckinUpdateVehicle(s)
    \/ CheckinCreateInspection(s)
    \/ Close(s)

NextTrip == \E s \in SeqSessions : TripStep(s)

SpecTrip == Init /\ [][NextTrip]_vars

\* The pages of one session next to callers of the useVehicles hook.
NextHooks ==
    \/ \E s \in SeqSessions : Step(s)
    \/ \E v \in Vehicles : updateVehicleStatus(v) \/ assignDriver(v) \/ releaseVehicle(v)

SpecHooks == Init /\ [][NextHooks]_vars

\* A user who keeps at checking vehicle in: a page that is open gets closed,
\* and of the attempts that can succeed infinitely often, to open the checkin
\* page, to load the active assignment, to submit the form and have the
\* assignment and then the vehicle updated, one eventually does.
CheckinKeptAt(s) ==
    /\ WF_vars(Close(s))
    /\ SF_vars(OpenCheckin(s) /\ page'[s] = "checkin")
    /\ SF_vars(LoadCurrentAssignment(s) /\ currentAssignment'[s] # Null)
    /\ SF_vars(HandleCheckin(s) /\ assignments' # assignments)
    /\ SF_vars(CheckinUpdateVehicle(s) /\ vehicles' # vehicles)

\* One trip of one session, the checkin kept at.
SpecTripFair == SpecTrip /\ \A s \in SeqSessions : CheckinKeptAt(s)

\* ------------------------------------------------- the forms, observed
\* A text a number input holds as a valid number and parseInt does not read.
DecimalText == <<".", "5">>

TypedMileageTexts == MileageTexts \cup {DecimalText}

TypedCheckoutForms ==
    {[f EXCEPT !.startingMileage = t] :
        f \in CheckoutForms(FuelTexts), t \in TypedMileageTexts}

TypedCheckinForms ==
    {[f EXCEPT !.endingMileage = t] :
        f \in CheckinForms(FuelTexts), t \in TypedMileageTexts}

\* What came of a press on a submit button.
Observed(call, f, outcome) ==
    probe' = [call |-> call, form |-> f, outcome |-> outcome]

\* Nothing but the observation changes: the button was disabled, or the
\* handler returned before its try block.
Refused(call, f, outcome) ==
    /\ Observed(call, f, outcome)
    /\ UNCHANGED <<store, page, id, vehicle, currentAssignment,
                   loadingAssignment, pc, form>>

\* The press with the button never disabled and no field check in the
\* handler.
CheckoutAttempt_Unchecked(s) ==
    /\ CheckoutFormShown(s)
    /\ pc[s] = "idle"
    /\ Len(assignments) < MaxTrips
    /\ \E f \in TypedCheckoutForms, ok \in BOOLEAN :
        IF ok
        THEN CheckoutAssignmentCreated(s, f) /\ Observed("checkout", f, "accepted")
        ELSE Failed(s) /\ Observed("checkout", f, "failed")

\* A press on "Complete Checkout" whatever the form holds: a disabled
\* button gives no click, an enabled one runs handleCheckout.
CheckoutAttempt(s) ==
    /\ CheckoutFormShown(s)
    /\ Len(assignments) < MaxTrips
    /\ \E f \in TypedCheckoutForms, ok \in BOOLEAN :
        IF CheckoutButtonDisabled(pc[s] # "idle", f)
        THEN Refused("checkout", f, "disabled")
        ELSE IF CheckoutFieldsMissing(f) THEN Refused("checkout", f, "rejected")
        ELSE IF ok
        THEN CheckoutAssignmentCreated(s, f) /\ Observed("checkout", f, "accepted")
        ELSE Failed(s) /\ Observed("checkout", f, "failed")

\* A press on "Complete Check-in" whatever the form holds.
CheckinAttempt(s) ==
    /\ CheckinFormShown(s)
    /\ \E f \in TypedCheckinForms, ok \in BOOLEAN :
        IF CheckinButtonDisabled(pc[s] # "idle", f)
        THEN Refused("checkin", f, "disabled")
        ELSE IF CheckinFieldsMissing(f) THEN Refused("checkin", f, "rejected")
        ELSE IF EndingBelowStarting(currentAssignment[s], f)
        THEN Refused("checkin", f, "rejected")
        ELSE IF ~ok THEN Failed(s) /\ Observed("checkin", f, "failed")
        ELSE IF currentAssignment[s] # Null
        THEN CheckinAssignmentUpdated(s, f) /\ Observed("checkin", f, "accepted")
        ELSE CheckinVehicleUpdated(s, f) /\ Observed("checkin", f, "accepted")

\* The checkout page of one session, its submit button observed.
CheckoutFormStep(s) ==
    \/ OpenCheckout(s)
    \/ CheckoutAttempt(s)
    \/ CheckoutUpdateVehicle(s)
    \/ Close(s)

NextCheckoutForm == \E s \in SeqSessions : CheckoutFormStep(s)

SpecCheckoutForm == Init /\ [][NextCheckoutForm]_vars

\* The store after a checkout by driver d got through, no page mounted.
CheckedOut(v, d, mileage) ==
    LET f == [selectedDriverId |-> d, startingMileage |-> toString(mileage),
              fuelLevel |-> toString(55), destination |-> "x",
              tripPurpose |-> "x", signature |-> "x"]
    IN  /\ vehicles = [w \in Vehicles |->
                         IF w = v
                         THEN [status |-> "in_use", currentDriverId |-> d,
                               currentMileage |-> mileage, fuelLevel |-> 55,
                               nextServiceOdometer |-> 1]
                         ELSE [status |-> "available", currentDriverId |-> "",
                               currentMileage |-> 0, fuelLevel |-> 70,
                               nextServiceOdometer |-> 1]]
        /\ assignments = <<assignmentData(v, f)>>
        /\ inspections = <<>>

InitCheckedOut ==
    /\ \E v \in Vehicles, d \in Drivers, mileage \in 0..MaxMileage :
          CheckedOut(v, d, mileage)
    /\ page = [s \in Sessions |-> "none"]
    /\ id = [s \in Sessions |-> ""]
    /\ vehicle = [s \in Sessions |-> Null]
    /\ currentAssignment = [s \in Sessions |-> Null]
    /\ loadingAssignment = [s \in Sessions |-> FALSE]
    /\ pc = [s \in Sessions |-> "idle"]
    /\ form = [s \in Sessions |-> NoForm]
    /\ probe = NoProbe

\* The checkin page of one session on a vehicle that is checked out, its
\* submit button observed.
CheckinFormStep(s) ==
    \/ OpenCheckin(s)
    \/ LoadCurrentAssignment(s)
    \/ CheckinAttempt(s)
    \/ CheckinUpdateVehicle(s)
    \/ CheckinCreateInspection(s)
    \/ Close(s)

NextCheckinForm == \E s \in SeqSessions : CheckinFormStep(s)

SpecCheckinForm == InitCheckedOut /\ [][NextCheckinForm]_vars

\* What a user can leave in the fuel level <input type="number" min="0"
\* max="100">: the page has no <form>, so the bounds are never enforced.
TypedFuelTexts == FuelTexts \cup {<<>>, toString(150), toString(0 - 5)}

\* handleCheckout on a form with any fuel level typed.
FuelCheckout(s) ==
    /\ UNCHANGED probe
    /\ CheckoutFormShown(s)
    /\ Len(assignments) < MaxTrips
    /\ \E f \in CheckoutForms(TypedFuelTexts), ok \in BOOLEAN :
        /\ ~CheckoutButtonDisabled(pc[s] # "idle", f)
        /\ IF CheckoutFieldsMissing(f) THEN Rejected(s)
           ELSE IF ok THEN CheckoutAssignmentCreated(s, f)
           ELSE Failed(s)

\* handleCheckin on a form with any fuel level typed.
FuelCheckin(s) ==
    /\ UNCHANGED probe
    /\ CheckinFormShown(s)
    /\ \E f \in CheckinForms(TypedFuelTexts), ok \in BOOLEAN :
        /\ ~CheckinButtonDisabled(pc[s] # "idle", f)
        /\ IF CheckinFieldsMissing(f) THEN Rejected(s)
           ELSE IF EndingBelowStarting(currentAssignment[s], f) THEN Rejected(s)
           ELSE IF ~ok THEN Failed(s)
           ELSE IF currentAssignment[s] # Null THEN CheckinAssignmentUpdated(s, f)
           ELSE CheckinVehicleUpdated(s, f)

\* One trip of one session, any fuel level typed.
FuelStep(s) ==
    \/ OpenCheckout(s)
    \/ FuelCheckout(s)
    \/ CheckoutUpdateVehicle(s)
    \/ OpenCheckin(s)
    \/ LoadCurrentAssignment(s)
    \/ FuelCheckin(s)
    \/ CheckinUpdateVehicle(s)
    \/ CheckinCreateInspection(s)
    \/ Close(s)

NextFuel == \E s \in SeqSessions : FuelStep(s)

SpecFuel == Init /\ [][NextFuel]_vars

\* ------------------------------------------------------ InspectionService
\* All sequences over S of length at most n.
SeqsUpTo(S, n) == UNION {[1..k -> S] : k \in 0..n}

\* Damage reports, as far as determinOverallCondition reads them.
DamageReports == [severity : {"minor", "moderate", "major", "critical"}]

\* Checklist items, as far as determinOverallCondition reads them: a severity
\* other than critical is read alike whatever it is.
ChecklistItems ==
    [status : {"pass", "fail", "needs_attention"}, severity : {"low", "critical"}]
        \ {[status |-> "needs_attention", severity |-> "critical"]}

\* determinOverallCondition looking only at the reports flagged hasDamage.
determinOverallCondition_FlaggedOnly(reports, checklistItems) ==
    LET HasDamage_(damage) == damage.hasDamage
        damages == SelectSeq(reports, HasDamage_)
        IsCritical(damage) == damage.severity = "critical"
        IsMajor(damage) == damage.severity = "major"
        IsModerate(damage) == damage.severity = "moderate"
        IsMinor(damage) == damage.severity = "minor"
        IsFailed(item) == item.status = "fail"
        IsCriticalItem(item) == item.severity = "critical"
        NeedsAttention(item) == item.status = "needs_attention"
        hasCriticalDamage == (\E k \in DOMAIN damages : IsCritical(damages[k]))
        hasMajorDamage == (\E k \in DOMAIN damages : IsMajor(damages[k]))
        failedItems == SelectSeq(checklistItems, IsFailed)
        criticalFailures == SelectSeq(failedItems, IsCriticalItem)
        hasModerateNeedsAttention ==
            \/ \E k \in DOMAIN damages : IsModerate(damages[k])
            \/ \E k \in DOMAIN checklistItems : NeedsAttention(checklistItems[k])
        hasMinorIssues ==
            \/ \E k \in DOMAIN damages : IsMinor(damages[k])
            \/ Len(failedItems) > 0
    IN  IF hasCriticalDamage THEN "damaged"
        ELSE IF hasMajorDamage THEN "poor"
        ELSE IF Len(criticalFailures) > 0 THEN "poor"
        ELSE IF Len(failedItems) > 3 THEN "fair"
        ELSE IF hasModerateNeedsAttention THEN "fair"
        ELSE IF hasMinorIssues THEN "good"
        ELSE "excellent"

\* determinOverallCondition counting the failed items before it looks at the
\* damages.
determinOverallCondition_ManyFailedFirst(damages, checklistItems) ==
    LET IsCritical(damage) == damage.severity = "critical"
        IsMajor(damage) == damage.severity = "major"
        IsModerate(damage) == damage.severity = "moderate"
        IsMinor(damage) == damage.severity = "minor"
        IsFailed(item) == item.status = "fail"
        IsCriticalItem(item) == item.severity = "critical"
        NeedsAttention(item) == item.status = "needs_attention"
        hasCriticalDamage == (\E k \in DOMAIN damages : IsCritical(damages[k]))
        hasMajorDamage == (\E k \in DOMAIN damages : IsMajor(damages[k]))
        failedItems == SelectSeq(checklistItems, IsFailed)
        criticalFailures == SelectSeq(failedItems, IsCriticalItem)
        hasModerateNeedsAttention ==
            \/ \E k \in DOMAIN damages : IsModerate(damages[k])
            \/ \E k \in DOMAIN checklistItems : NeedsAttention(checklistItems[k])
        hasMinorIssues ==
            \/ \E k \in DOMAIN damages : IsMinor(damages[k])
            \/ Len(failedItems) > 0
    IN  IF Len(failedItems) > 3 THEN "fair"
        ELSE IF hasCriticalDamage THEN "damaged"
        ELSE IF hasMajorDamage THEN "poor"
        ELSE IF Len(criticalFailures) > 0 THEN "poor"
        ELSE IF hasModerateNeedsAttention THEN "fair"
        ELSE IF hasMinorIssues THEN "good"
        ELSE "excellent"

\* determinOverallCondition taking three failed items for many already.
determinOverallCondition_ThreeFailed(damages, checklistItems) ==
    LET IsCritical(damage) == damage.severity = "critical"
        IsMajor(damage) == damage.severity = "major"
        IsModerate(damage) == damage.severity = "moderate"
        IsMinor(damage) == damage.severity = "minor"
        IsFailed(item) == item.status = "fail"
        IsCriticalItem(item) == item.severity = "critical"
        NeedsAttention(item) == item.status = "needs_attention"
        hasCriticalDamage == (\E k \in DOMAIN damages : IsCritical(damages[k]))
        hasMajorDamage == (\E k \in DOMAIN damages : IsMajor(damages[k]))
        failedItems == SelectSeq(checklistItems, IsFailed)
        criticalFailures == SelectSeq(failedItems, IsCriticalItem)
        hasModerateNeedsAttention ==
            \/ \E k \in DOMAIN damages : IsModerate(damages[k])
            \/ \E k \in DOMAIN checklistItems : NeedsAttention(checklistItems[k])
        hasMinorIssues ==
            \/ \E k \in DOMAIN damages : IsMinor(damages[k])
            \/ Len(failedItems) > 0
    IN  IF hasCriticalDamage THEN "damaged"
        ELSE IF hasMajorDamage THEN "poor"
        ELSE IF Len(criticalFailures) > 0 THEN "poor"
        ELSE IF Len(failedItems) >= 3 THEN "fair"
        ELSE IF hasModerateNeedsAttention THEN "fair"
        ELSE IF hasMinorIssues THEN "good"
        ELSE "excellent"

\* determinOverallCondition(damages, checklistItems)
determinOverallCondition(damages, checklistItems) ==
    LET IsCritical(damage) == damage.severity = "critical"
        IsMajor(damage) == damage.severity = "major"
        IsModerate(damage) == damage.severity = "moderate"
        IsMinor(damage) == damage.severity = "minor"
        IsFailed(item) == item.status = "fail"
        IsCriticalItem(item) == item.severity = "critical"
        NeedsAttention(item) == item.status = "needs_attention"
        hasCriticalDamage == (\E k \in DOMAIN damages : IsCritical(damages[k]))
        hasMajorDamage == (\E k \in DOMAIN damages : IsMajor(damages[k]))
        failedItems == SelectSeq(checklistItems, IsFailed)
        criticalFailures == SelectSeq(failedItems, IsCriticalItem)
        hasModerateNeedsAttention ==
            \/ \E k \in DOMAIN damages : IsModerate(damages[k])
            \/ \E k \in DOMAIN checklistItems : NeedsAttention(checklistItems[k])
        hasMinorIssues ==
            \/ \E k \in DOMAIN damages : IsMinor(damages[k])
            \/ Len(failedItems) > 0
    IN  IF hasCriticalDamage THEN "damaged"
        ELSE IF hasMajorDamage THEN "poor"
        ELSE IF Len(criticalFailures) > 0 THEN "poor"
        ELSE IF Len(failedItems) > 3 THEN "fair"
        ELSE IF hasModerateNeedsAttention THEN "fair"
        ELSE IF hasMinorIssues THEN "good"
        ELSE "excellent"

\* A call that has not returned yet.
Pending == "pending"

\* Nothing stored, nobody on a page.
Untouched ==
    /\ vehicles = [v \in Vehicles |->
                     [status |-> "available", currentDriverId |-> "",
                      currentMileage |-> 0, fuelLevel |-> 70,
                      nextServiceOdometer |-> 1]]
    /\ assignments = <<>>
    /\ inspections = <<>>
    /\ page = [s \in Sessions |-> "none"]
    /\ id = [s \in Sessions |-> ""]
    /\ vehicle = [s \in Sessions |-> Null]
    /\ currentAssignment = [s \in Sessions |-> Null]
    /\ loadingAssignment = [s \in Sessions |-> FALSE]
    /\ pc = [s \in Sessions |-> "idle"]
    /\ form = [s \in Sessions |-> NoForm]

\* determinOverallCondition is about to be called on some damages and some
\* checklist items.
InitCondition ==
    /\ Untouched
    /\ \E damages \in SeqsUpTo(DamageReports, MaxDamages),
          checklistItems \in SeqsUpTo(ChecklistItems, MaxItems) :
          probe = [call |-> "determinOverallCondition",
                   damages |-> damages, checklistItems |-> checklistItems,
                   outcome |-> Pending]

\* The call returns.
AssessCondition ==
    /\ probe.call = "determinOverallCondition"
    /\ probe.outcome = Pending
    /\ probe' = [probe EXCEPT !.outcome =
                    determinOverallCondition(probe.damages, probe.checklistItems)]
    /\ UNCHANGED <<vehicles, assignments, inspections, page, id, vehicle,
                   currentAssignment, loadingAssignment, pc, form>>

NextCondition == AssessCondition

SpecCondition == InitCondition /\ [][NextCondition]_vars

\* The increase of a reading above which validateOdometerReading warns.
UnusualIncrease == 1000

\* The readings stored: low ones, and ones more than the unusual increase
\* above the lowest reading asked about.
StoredReadings ==
    (0..MaxPrevious) \cup {UnusualIncrease + 1 + n : n \in 0..MaxPrevious}

\* What getDoc finds for a vehicle: nothing, a document whose data has no
\* currentOdometer, or one with a reading.
VehicleDocs ==
    {Null} \cup {[make |-> "Toyota"]}
           \cup {[make |-> "Toyota", currentOdometer |-> n] : n \in StoredReadings}

\* The readings asked about.
NewReadings == (0 - MaxExcess)..(MaxPrevious + UnusualIncrease + MaxExcess)

\* vehicleData.currentOdometer || 0
currentOdometer(vehicleData) ==
    IF "currentOdometer" \in DOMAIN vehicleData
    THEN OrZero(vehicleData.currentOdometer)
    ELSE 0

\* OdometerErrors with the comparison left out.
OdometerErrors_Unchecked(newReading, current) == <<>>

\* The errors validateOdometerReading collects.
OdometerErrors(newReading, current) ==
    IF JsLess(newReading, current)
    THEN <<"Reading cannot be lower than current reading">>
    ELSE <<>>

\* OdometerWarnings warning of a large difference in either direction.
OdometerWarnings_EitherWay(newReading, current) ==
    LET difference == JsMinus(newReading, current)
    IN  IF JsLess(UnusualIncrease, difference) \/ difference < 0 - UnusualIncrease
        THEN <<"Unusually high mileage increase detected">>
        ELSE <<>>

\* OdometerWarnings warning one kilometre later.
OdometerWarnings_OneLater(newReading, current) ==
    LET difference == JsMinus(newReading, current)
    IN  IF JsLess(UnusualIncrease + 1, difference)
        THEN <<"Unusually high mileage increase detected">>
        ELSE <<>>

\* The warnings validateOdometerReading collects.
OdometerWarnings(newReading, current) ==
    LET difference == JsMinus(newReading, current)
    IN  IF JsLess(UnusualIncrease, difference)
        THEN <<"Unusually high mileage increase detected">>
        ELSE <<>>

\* validateOdometerReading reading a vehicle that is not found as one with
\* no reading yet.
validateOdometerReading_MissingIsNew(vehicleDoc, newReading) ==
    LET current == IF vehicleDoc = Null THEN 0 ELSE currentOdometer(vehicleDoc)
        errors == OdometerErrors(newReading, current)
        warnings == OdometerWarnings(newReading, current)
    IN  [isValid |-> Len(errors) = 0, errors |-> errors, warnings |-> warnings]

\* validateOdometerReading once getDoc has answered with vehicleDoc.
validateOdometerReading(vehicleDoc, newReading) ==
    IF vehicleDoc = Null
    THEN [isValid |-> FALSE, errors |-> <<"Vehicle not found">>, warnings |-> <<>>]
    ELSE LET errors == OdometerErrors(newReading, currentOdometer(vehicleDoc))
             warnings == OdometerWarnings(newReading, currentOdometer(vehicleDoc))
         IN  [isValid |-> Len(errors) = 0, errors |-> errors, warnings |-> warnings]

\* What validateOdometerReading returns from its catch block.
ValidationFailed ==
    [isValid |-> FALSE, errors |-> <<"Failed to validate odometer reading">>,
     warnings |-> <<>>]

\* validateOdometerReading is about to be called for a vehicle and a reading;
\* it has returned nothing yet.
InitOdometer ==
    /\ Untouched
    /\ \E vehicleDoc \in VehicleDocs, newReading \in NewReadings :
          probe = [call |-> "validateOdometerReading", vehicleDoc |-> vehicleDoc,
                   newReading |-> newReading, answered |-> FALSE,
                   outcome |-> Null]

\* The call returns: getDoc answered, or threw.
ValidateOdometer ==
    /\ probe.call = "validateOdometerReading"
    /\ probe.outcome = Null
    /\ \E answered \in BOOLEAN :
          probe' = [probe EXCEPT
                      !.answered = answered,
                      !.outcome =
                         IF answered
                         THEN validateOdometerReading(probe.vehicleDoc, probe.newReading)
                         ELSE ValidationFailed]
    /\ UNCHANGED <<vehicles, assignments, inspections, page, id, vehicle,
                   currentAssignment, loadingAssignment, pc, form>>

NextOdometer == ValidateOdometer

SpecOdometer == InitOdometer /\ [][NextOdometer]_vars

\* What serverTimestamp() can resolve to.
Times == {1, 2}

\* Math.round(a / b) for a >= 0, b > 0.
RoundDiv(a, b) == (2 * a + b) \div (2 * b)

\* The inspection data the callers of submitInspection in this model pass.
InspectionDatas ==
    [vehicleId : Vehicles, driverId : Drivers \cup {""},
     odometer : [reading : 0..MaxMileage, isValid : {TRUE}],
     fuelLevel : [percentage : {55}],
     damages : {<<>>, <<[severity |-> "critical"]>>},
     checklistItems : {<<>>, <<[status |-> "fail", severity |-> "low"]>>}]

\* The document submitInspection adds to the inspections collection.
inspectionDoc(data, now) ==
    [vehicleId |-> data.vehicleId,
     driverId |-> data.driverId,
     odometer |-> data.odometer,
     fuelLevel |->
        [percentage |-> data.fuelLevel.percentage,
         estimatedLiters |->
            RoundDiv(data.fuelLevel.percentage * 60, 100)],
     damageInspection |->
        [overallCondition |->
            determinOverallCondition(data.damages,
                                     data.checklistItems),
         damages |-> data.damages,
         completedChecklist |-> data.checklistItems],
     status |-> "completed",
     timestamp |-> now,
     submittedAt |-> now]

\* submitInspection(data): refused without a vehicle or a driver;
\* addDoc adds the document, or throws.
submitInspection ==
    /\ UNCHANGED probe
    /\ Len(inspections) < MaxInspections
    /\ \E data \in InspectionDatas, now \in Times, added \in BOOLEAN :
          IF data.vehicleId = "" \/ data.driverId = ""
          THEN UNCHANGED inspections
          ELSE IF added
          THEN inspections' = Append(inspections, inspectionDoc(data, now))
          ELSE UNCHANGED inspections
    /\ UNCHANGED <<vehicles, assignments, page, id, vehicle,
                   currentAssignment, loadingAssignment, pc, form>>

\* The statuses of an inspection.
InspectionStatuses == {"completed", "in_progress", "requires_attention"}

\* updateData with the odometer reading cleared as well.
updateData_ReadingCleared(status, reviewNotes, now) ==
    IF reviewNotes # ""
    THEN [status |-> status, updatedAt |-> now,
          reviewNotes |-> reviewNotes, reviewedAt |-> now,
          odometer |-> [reading |-> 0, isValid |-> TRUE]]
    ELSE [status |-> status, updatedAt |-> now,
          odometer |-> [reading |-> 0, isValid |-> TRUE]]

\* The updateData of updateInspectionStatus.
updateData(status, reviewNotes, now) ==
    IF reviewNotes # ""
    THEN [status |-> status, updatedAt |-> now,
          reviewNotes |-> reviewNotes, reviewedAt |-> now]
    ELSE [status |-> status, updatedAt |-> now]

\* updateInspectionStatus(inspectionId, status, reviewNotes): updateDoc
\* patches the document, or throws (as it does when there is no such
\* document).
updateInspectionStatus ==
    /\ UNCHANGED probe
    /\ \E inspectionId \in 1..MaxInspections, status \in InspectionStatuses,
          reviewNotes \in Texts, now \in Times, updated \in BOOLEAN :
          IF inspectionId \in 1..Len(inspections) /\ updated
          THEN inspections' =
                  [inspections EXCEPT ![inspectionId] =
                      Merge(@, updateData(status, reviewNotes, now))]
          ELSE UNCHANGED inspections
    /\ UNCHANGED <<vehicles, assignments, page, id, vehicle,
                   currentAssignment, loadingAssignment, pc, form>>

InitReview == Untouched /\ probe = NoProbe

NextReview == submitInspection \/ updateInspectionStatus

SpecReview == InitReview /\ [][NextReview]_vars

\* arr with e inserted so that it is the k-th element.
InsertAt(arr, k, e) ==
    [j \in 1..(Len(arr) + 1) |->
        IF j < k THEN arr[j] ELSE IF j = k THEN e ELSE arr[j - 1]]

\* determinOverallCondition has been called on no damages and no checklist
\* items.
InitFindings ==
    /\ Untouched
    /\ probe = [call |-> "determinOverallCondition",
                damages |-> <<>>, checklistItems |-> <<>>,
                outcome |-> determinOverallCondition(<<>>, <<>>)]

\* The call is repeated with one more damage report.
AddDamage ==
    /\ probe.call = "determinOverallCondition"
    /\ Len(probe.damages) < MaxDamages
    /\ \E damage \in DamageReports, k \in 1..(Len(probe.damages) + 1) :
          LET damages == InsertAt(probe.damages, k, damage)
          IN  probe' = [probe EXCEPT
                          !.damages = damages,
                          !.outcome = determinOverallCondition(damages,
                                                               probe.checklistItems)]
    /\ UNCHANGED <<vehicles, assignments, inspections, page, id, vehicle,
                   currentAssignment, loadingAssignment, pc, form>>

\* The call is repeated with one more checklist item.
AddChecklistItem ==
    /\ probe.call = "determinOverallCondition"
    /\ Len(probe.checklistItems) < MaxItems
    /\ \E item \in ChecklistItems, k \in 1..(Len(probe.checklistItems) + 1) :
          LET checklistItems == InsertAt(probe.checklistItems, k, item)
          IN  probe' = [probe EXCEPT
                          !.checklistItems = checklistItems,
                          !.outcome = determinOverallCondition(probe.damages,
                                                               checklistItems)]
    /\ UNCHANGED <<vehicles, assignments, inspections, page, id, vehicle,
                   currentAssignment, loadingAssignment, pc, form>>

NextFindings == AddDamage \/ AddChecklistItem

SpecFindings == InitFindings /\ [][NextFindings]_vars

\* The severities createDamageReport is called with; the parameter is
\* optional.
ReportSeverities == {"minor", "moderate", "major", "critical", "undefined"}

\* createDamageReport requiring repair for any damage.
createDamageReport_AnyDamage(component, hasDamage, severity, description) ==
    [component |-> component,
     hasDamage |-> hasDamage,
     severity |-> severity,
     description |-> description,
     estimatedCost |-> 0,
     repairRequired |-> hasDamage]

\* createDamageReport(component, hasDamage, severity, description)
createDamageReport(component, hasDamage, severity, description) ==
    [component |-> component,
     hasDamage |-> hasDamage,
     severity |-> severity,
     description |-> description,
     estimatedCost |-> 0,
     repairRequired |-> hasDamage /\ (severity = "major" \/ severity = "critical")]

\* The checklists of the inspections whose damage reports are followed.
ChecklistSamples ==
    {<<>>} \cup {<<item>> : item \in ChecklistItems}

\* An inspection with no damage report yet has been assessed.
InitReports ==
    /\ Untouched
    /\ \E checklistItems \in ChecklistSamples :
          probe = [call |-> "determinOverallCondition", step |-> "assessed",
                   damages |-> <<>>, checklistItems |-> checklistItems,
                   outcome |-> determinOverallCondition(<<>>, checklistItems)]

\* A damage report is created and added, and the inspection assessed again.
ReportDamage ==
    /\ probe.call = "determinOverallCondition"
    /\ Len(probe.damages) < MaxDamages
    /\ \E hasDamage \in BOOLEAN, severity \in ReportSeverities :
          LET damages == Append(probe.damages,
                                createDamageReport("body", hasDamage, severity, ""))
          IN  probe' = [probe EXCEPT
                          !.step = "reported",
                          !.damages = damages,
                          !.outcome = determinOverallCondition(damages,
                                                               probe.checklistItems)]
    /\ UNCHANGED <<vehicles, assignments, inspections, page, id, vehicle,
                   currentAssignment, loadingAssignment, pc, form>>

\* One damage report is created again with the other hasDamage flag, and the
\* inspection assessed again.
ReportOtherFlag ==
    /\ probe.call = "determinOverallCondition"
    /\ \E k \in 1..Len(probe.damages) :
          LET old == probe.damages[k]
              damages == [probe.damages EXCEPT ![k] =
                            createDamageReport(old.component, ~old.hasDamage,
                                               old.severity, old.description)]
          IN  probe' = [probe EXCEPT
                          !.step = "flagged",
                          !.damages = damages,
                          !.outcome = determinOverallCondition(damages,
                                                               probe.checklistItems)]
    /\ UNCHANGED <<vehicles, assignments, inspections, page, id, vehicle,
                   currentAssignment, loadingAssignment, pc, form>>

NextReports == ReportDamage \/ ReportOtherFlag

SpecReports == InitReports /\ [][NextReports]_vars

\* ---------------------------------------------------------- VehicleService
\* getNextServiceInfo is about to be called on a vehicle; it has returned
\* nothing yet.
InitService ==
    /\ Untouched
    /\ \E next \in 0..MaxOdometer, current \in 0..MaxOdometer :
          probe = [call |-> "getNextServiceInfo",
                   vehicle |-> [nextServiceOdometer |-> next,
                                currentOdometer |-> current],
                   outcome |-> Null]

\* The call returns.
ServiceInfo ==
    /\ probe.call = "getNextServiceInfo"
    /\ probe.outcome = Null
    /\ probe' = [probe EXCEPT !.outcome = getNextServiceInfo(probe.vehicle)]
    /\ UNCHANGED <<vehicles, assignments, inspections, page, id, vehicle,
                   currentAssignment, loadingAssignment, pc, form>>

NextService == ServiceInfo

SpecService == InitService /\ [][NextService]_vars

\* ----------------------------------------------------------- properties
\* A session took a step of its page: its position or its page changed.
Stepped(s) == <<page[s], pc[s], form[s]>>' # <<page[s], pc[s], form[s]>>

\* The step wrote no assignment and did not change a vehicle.
NoWrite == UNCHANGED <<vehicles, assignments>>

\* The active assignments of vehicle v after the step.
ActiveAfter(v) ==
    {i \in 1..Len(assignments') :
        assignments'[i].vehicleId = v /\ assignments'[i].status = "active"}

\* No handler is between two of its persistence calls.
Quiescent == \A s \in Sessions : pc[s] = "idle"

\* handleCheckout of session s completes with its success toast.
CheckoutSucceeds(s) ==
    /\ page[s] = "checkout"
    /\ pc[s] = "created"
    /\ CheckoutVehicleUpdated(s)

\* handleCheckout of session s ends after its assignment was created and
\* before the vehicle was updated: the update threw, or the page was left.
CheckoutStops(s) ==
    /\ page[s] = "checkout"
    /\ pc[s] = "created"
    /\ pc'[s] = "idle"
    /\ ~CheckoutVehicleUpdated(s)

\* handleCheckin of session s completes without damage reported, the
\* current assignment loaded.
CheckinSucceeds(s) ==
    /\ page[s] = "checkin"
    /\ pc[s] = "assignmentUpdated"
    /\ currentAssignment[s] # Null
    /\ ~form[s].damageReported
    /\ CheckinVehicleUpdated(s, form[s])

\* C1: in every reachable state a vehicle has at most one assignment
\* whose status is 'active'.
C1_AtMostOneActiveAssignment ==
    \A v \in Vehicles : Cardinality(ActiveAssignments(v)) <= 1

\* C2: of two checkouts of one vehicle that both read it as available,
\* exactly one succeeds: a checkout that completes with success finds the
\* stored vehicle still available, no other checkout having taken it
\* since this one read it.
C2_ConcurrentCheckoutOneSucceeds ==
    [][\A s \in Sessions :
          CheckoutSucceeds(s) => vehicles[id[s]].status = "available"]_vars

\* C3: in every reachable state a vehicle's status is 'in_use' exactly
\* when its current driver is set.
C3_InUseIffCurrentDriver ==
    \A v \in Vehicles :
        (vehicles[v].status = "in_use") <=> (vehicles[v].currentDriverId # "")

\* C4: a vehicle whose status is 'in_use' has an active assignment, also
\* once a checkout or checkin has failed or was abandoned part-way (no
\* handler being between two of its writes).
C4_InUseHasActiveAssignment ==
    Quiescent =>
        \A v \in Vehicles :
            vehicles[v].status = "in_use" => ActiveAssignments(v) # {}

\* C5: a checkout that fails or is abandoned after it started does not
\* leave an active assignment on a vehicle that is still available and
\* without a current driver.
C5_FailedCheckoutLeavesNoAssignment ==
    [][\A s \in Sessions :
          CheckoutStops(s) =>
              ~(/\ ActiveAfter(id[s]) # {}
                /\ vehicles'[id[s]].status = "available"
                /\ vehicles'[id[s]].currentDriverId = "")]_vars

\* C6: no step (checkout, checkin, inspection) lowers a vehicle's stored
\* odometer reading.
C6_OdometerNeverDecreases ==
    [][\A v \in Vehicles :
          vehicles'[v].currentMileage >= vehicles[v].currentMileage]_vars

\* C7: a checkout attempted while the stored status of the vehicle is not
\* 'available' writes no assignment and does not change the vehicle.
C7_CheckoutOfUnavailableWritesNothing ==
    [][\A s \in Sessions :
          (/\ page[s] = "checkout"
           /\ vehicles[id[s]].status # "available"
           /\ Stepped(s)) => NoWrite]_vars

\* C8: a checkout attempted on a vehicle whose service is overdue (next
\* service odometer minus current odometer at most 0) is refused: it
\* writes no assignment and does not change the vehicle.
C8_CheckoutOfOverdueRefused ==
    [][\A s \in Sessions :
          (/\ page[s] = "checkout"
           /\ getNextServiceInfo(ServiceView(id[s])).isOverdue
           /\ Stepped(s)) => NoWrite]_vars

C10_CheckinWithoutAssignmentRejected ==
    [][\A s \in Sessions :
          (/\ page[s] = "checkin"
           /\ pc[s] = "idle"
           /\ (currentAssignment[s] = Null \/ ActiveAssignments(id[s]) = {})
           /\ Stepped(s)) => NoWrite]_vars

\* handleCheckin of session s gets its vehicles.update through, the
\* assignment completed before.
CheckinReleases(s) ==
    /\ page[s] = "checkin"
    /\ pc[s] = "assignmentUpdated"
    /\ CheckinVehicleUpdated(s, form[s])

\* The stored vehicle v after the step, as the service tracker reads it.
ServiceViewAfter(v) ==
    [nextServiceOdometer |-> vehicles'[v].nextServiceOdometer,
     currentOdometer |-> vehicles'[v].currentMileage]

\* C11: after a checkin that succeeds the vehicle is 'maintenance_required'
\* when the service tracker reports it overdue ('requires_attention' when
\* the damage is critical), and 'available' only when it is not overdue
\* and, without damage reported, in no other case.
C11_StatusAfterCheckin ==
    [][\A s \in Sessions :
          CheckinReleases(s) =>
              LET after == vehicles'[id[s]].status
              IN  IF getNextServiceInfo(ServiceViewAfter(id[s])).isOverdue
                  THEN after \in {"maintenance_required", "requires_attention"}
                  ELSE IF form[s].damageReported
                  THEN after \in {"available", "requires_attention"}
                  ELSE after = "available"]_vars

\* C12: an assignment record whose status is 'completed' is immutable: no
\* step, a second or concurrent checkin from a stale view included,
\* changes any of its fields.
C12_CompletedAssignmentImmutable ==
    [][\A i \in 1..Len(assignments) :
          assignments[i].status = "completed" =>
              /\ i <= Len(assignments')
              /\ assignments'[i] = assignments[i]]_vars

\* C13: every assignment record whose status is 'completed' has an ending
\* odometer >= the starting odometer stored in the same record, and a
\* total distance = ending - starting >= 0.
C13_CompletedDistance ==
    \A i \in 1..Len(assignments) :
        assignments[i].status = "completed" =>
            LET a == assignments[i]
            IN  /\ a.startingMileage # NaN
                /\ a.endingMileage # NaN
                /\ a.endingMileage >= a.startingMileage
                /\ a.totalMileage = a.endingMileage - a.startingMileage
                /\ a.totalMileage >= 0

\* The step is a press on the submit button of the page named by call.
Pressed(call) == probe' # probe /\ probe'.call = call

\* A checkin form that passes every check but the one on the mileage.
CheckinFormComplete(f) ==
    /\ f.endingMileage # <<>>
    /\ parseInt(f.endingMileage) # NaN
    /\ f.signature # ""
    /\ (f.damageReported => f.damageDescription # "")

\* C14: with every other check passing, a checkin whose ending odometer
\* equals the starting odometer of the vehicle's active assignment is
\* accepted (a call that throws aside), and one whose ending odometer is
\* one less is not accepted and leaves the vehicle and the assignment
\* unchanged.
C14_ZeroDistanceBoundary ==
    [][\A s \in Sessions :
          (/\ page[s] = "checkin"
           /\ pc[s] = "idle"
           /\ Pressed("checkin")
           /\ CheckinFormComplete(probe'.form)) =>
              LET ending == parseInt(probe'.form.endingMileage)
              IN  \A i \in ActiveAssignments(id[s]) :
                    /\ ending = assignments[i].startingMileage =>
                          probe'.outcome \in {"accepted", "failed"}
                    /\ ending = assignments[i].startingMileage - 1 =>
                          /\ probe'.outcome # "accepted"
                          /\ NoWrite]_vars

\* One of driver, starting mileage, destination, trip purpose and
\* signature is missing or empty.
CheckoutFieldAbsent(f) ==
    \/ f.selectedDriverId = ""
    \/ f.startingMileage = <<>>
    \/ f.destination = ""
    \/ f.tripPurpose = ""
    \/ f.signature = ""

\* C15: a checkout request in which driver, starting mileage, destination,
\* trip purpose or signature is missing or empty is rejected, creates no
\* assignment and changes no vehicle; a missing signature rejects it
\* whatever the other fields hold.
C15_CheckoutRequiredFields ==
    [][Pressed("checkout") =>
          /\ CheckoutFieldAbsent(probe'.form) =>
                /\ probe'.outcome \in {"disabled", "rejected"}
                /\ NoWrite
          /\ probe'.form.signature = "" =>
                /\ probe'.outcome \in {"disabled", "rejected"}
                /\ NoWrite]_vars

\* A checkout complete but for its signature was pressed and refused, the
\* store as it was.
C15_Witness ==
    /\ probe # NoProbe
    /\ probe.call = "checkout"
    /\ probe.form.signature = ""
    /\ probe.form.selectedDriverId # ""
    /\ probe.form.startingMileage # <<>>
    /\ probe.form.destination # ""
    /\ probe.form.tripPurpose # ""
    /\ probe.outcome \in {"disabled", "rejected"}
    /\ assignments = <<>>
    /\ \A v \in Vehicles : vehicles[v].status = "available"

\* Ending mileage or signature is missing, or damage is reported without
\* a description.
CheckinFieldAbsent(f) ==
    \/ f.endingMileage = <<>>
    \/ f.signature = ""
    \/ (f.damageReported /\ f.damageDescription = "")

\* C16: a checkin request is rejected, with no assignment or vehicle
\* change, when ending mileage or signature is missing, and when damage is
\* reported and the damage description is missing or empty.
C16_CheckinRequiredFields ==
    [][(Pressed("checkin") /\ CheckinFieldAbsent(probe'.form)) =>
          /\ probe'.outcome \in {"disabled", "rejected"}
          /\ NoWrite]_vars

\* A checkin with damage reported and not described, complete otherwise,
\* was pressed and refused, the vehicle still checked out.
C16_Witness ==
    /\ probe # NoProbe
    /\ probe.call = "checkin"
    /\ probe.form.damageReported
    /\ probe.form.damageDescription = ""
    /\ probe.form.endingMileage # <<>>
    /\ probe.form.signature # ""
    /\ probe.outcome \in {"disabled", "rejected"}
    /\ \E v \in Vehicles :
        /\ vehicles[v].status = "in_use"
        /\ ActiveAssignments(v) # {}

\* The ordered table of condition rules: the first rule whose test holds gives
\* the condition.
HasDamage(damages, severity) ==
    \E k \in 1..Len(damages) : damages[k].severity = severity

FailedCount(items) ==
    Cardinality({k \in 1..Len(items) : items[k].status = "fail"})

ConditionRules(damages, items) ==
    << <<HasDamage(damages, "critical"), "damaged">>,
       <<HasDamage(damages, "major"), "poor">>,
       <<\E k \in 1..Len(items) :
            items[k].status = "fail" /\ items[k].severity = "critical", "poor">>,
       <<FailedCount(items) > 3, "fair">>,
       <<HasDamage(damages, "moderate")
            \/ \E k \in 1..Len(items) : items[k].status = "needs_attention",
         "fair">>,
       <<HasDamage(damages, "minor") \/ FailedCount(items) >= 1, "good">>,
       <<TRUE, "excellent">> >>

FirstRule(rules) ==
    rules[CHOOSE k \in 1..Len(rules) :
            rules[k][1] /\ \A j \in 1..(k - 1) : ~rules[j][1]][2]

Assessed ==
    /\ probe.call = "determinOverallCondition"
    /\ probe.outcome # Pending

\* C17: the condition the assessor returns for any damages and checklist items
\* is the one the first matching rule of the ordered table gives; critical
\* together with minor damage gives damaged, and four failed items none of
\* them critical, with no damage, give fair.
C17_ConditionFollowsRuleTable ==
    Assessed =>
        /\ probe.outcome = FirstRule(ConditionRules(probe.damages, probe.checklistItems))
        /\ (HasDamage(probe.damages, "critical") /\ HasDamage(probe.damages, "minor")
                => probe.outcome = "damaged")
        /\ (/\ probe.damages = <<>>
            /\ FailedCount(probe.checklistItems) = 4
            /\ \A k \in 1..Len(probe.checklistItems) :
                  probe.checklistItems[k].severity # "critical"
            => probe.outcome = "fair")

C17_Witness ==
    /\ Assessed
    /\ probe.damages = <<>>
    /\ FailedCount(probe.checklistItems) = 4
    /\ \A k \in 1..Len(probe.checklistItems) :
          probe.checklistItems[k].severity # "critical"
    /\ probe.outcome = "fair"

\* The damage reports a stored inspection record carries: neither page stores
\* any.
RecordDamages(record) == <<>>

RECURSIVE ItemsOf(_, _)
ItemsOf(items, ids) ==
    IF ids = {} THEN <<>>
    ELSE LET i == CHOOSE j \in ids : TRUE
         IN  <<[status |-> items[i], severity |-> "undefined"]>>
                \o ItemsOf(items, ids \ {i})

\* The checklist items a stored inspection record carries.
RecordChecklistItems(record) ==
    IF "inspectionItems" \in DOMAIN record
    THEN ItemsOf(record.inspectionItems, DOMAIN record.inspectionItems)
    ELSE <<>>

\* C18: every stored inspection record has the overall condition the assessor
\* gives for the record's own damage reports and checklist items.
C18_StoredConditionIsAssessed ==
    \A k \in 1..Len(inspections) :
        inspections[k].overallCondition =
            determinOverallCondition(RecordDamages(inspections[k]),
                                     RecordChecklistItems(inspections[k]))

\* validateOdometerReading has returned for a vehicle with a previous reading.
Validated ==
    /\ probe.call = "validateOdometerReading"
    /\ probe.outcome # Null
    /\ probe.vehicleDoc # Null
    /\ "currentOdometer" \in DOMAIN probe.vehicleDoc

\* The previous reading had been read when the call returned.
PreviousRead == probe.outcome # ValidationFailed

previousReading == probe.vehicleDoc.currentOdometer

\* C19: for every previous reading and every new reading lower than it, the
\* validation returns isValid false and a non-empty list of errors.
C19_LowerReadingInvalid ==
    Validated /\ probe.newReading < previousReading =>
        /\ probe.outcome.isValid = FALSE
        /\ probe.outcome.errors # <<>>

C19_Witness ==
    /\ Validated
    /\ PreviousRead
    /\ previousReading = MaxPrevious
    /\ probe.newReading = MaxPrevious - 1
    /\ probe.outcome.isValid = FALSE
    /\ probe.outcome.errors = <<"Reading cannot be lower than current reading">>

\* C20 as stated: every new reading at least 1000 above the previous one,
\* exactly 1000 above included, is valid with a non-empty list of warnings.
C20_IncreaseOfThousandWarns ==
    Validated /\ PreviousRead
        /\ probe.newReading >= previousReading + UnusualIncrease =>
        /\ probe.outcome.warnings # <<>>
        /\ probe.outcome.isValid = TRUE

\* C20: every new reading more than 1000 above the previous one is valid
\* with a non-empty list of warnings, and a reading exactly 1000 above is
\* valid with no warning; the previous reading must have been read.
C20_IncreaseAboveThousandWarns ==
    Validated /\ PreviousRead =>
        /\ (probe.newReading > previousReading + UnusualIncrease =>
                /\ probe.outcome.warnings # <<>>
                /\ probe.outcome.isValid = TRUE)
        /\ (probe.newReading = previousReading + UnusualIncrease =>
                /\ probe.outcome.warnings = <<>>
                /\ probe.outcome.isValid = TRUE)

C20_Witness ==
    /\ Validated
    /\ PreviousRead
    /\ previousReading = 1
    /\ probe.newReading = 1 + UnusualIncrease + 1
    /\ probe.outcome.warnings # <<>>
    /\ probe.outcome.isValid = TRUE

\* getNextServiceInfo has returned.
ServiceInfoReturned ==
    /\ probe.call = "getNextServiceInfo"
    /\ probe.outcome # Null

\* The least whole number of days that covers a distance at a daily distance.
DaysToCover(distance, daily) ==
    CHOOSE d \in 0..distance :
        /\ d * daily >= distance
        /\ \A e \in 0..(d - 1) : e * daily < distance

\* C21: the service information of a vehicle has the remaining distance
\* nextServiceOdometer - currentOdometer, is overdue exactly when that is at
\* most 0, and estimates 0 days when overdue and the remaining distance
\* divided by the average daily distance, rounded up, otherwise; at
\* currentOdometer = nextServiceOdometer it is overdue with 0 and 0.
C21_NextServiceInfo ==
    ServiceInfoReturned =>
        LET next == probe.vehicle.nextServiceOdometer
            current == probe.vehicle.currentOdometer
            info == probe.outcome
        IN  /\ info.kmUntilService = next - current
            /\ info.isOverdue = (next - current <= 0)
            /\ info.daysUntilService =
                  IF next - current <= 0 THEN 0
                  ELSE DaysToCover(next - current, avgDailyKm)
            /\ (current = next =>
                  /\ info.isOverdue = TRUE
                  /\ info.kmUntilService = 0
                  /\ info.daysUntilService = 0)

C21_Witness ==
    /\ ServiceInfoReturned
    /\ probe.vehicle.currentOdometer = probe.vehicle.nextServiceOdometer
    /\ probe.vehicle.currentOdometer > 0
    /\ probe.outcome =
          [kmUntilService |-> 0, isOverdue |-> TRUE, daysUntilService |-> 0]

\* The step is one of a checkout page or a checkin page of vehicle v.
CheckoutOrCheckinOf(v) ==
    \E s \in Sessions :
        /\ id[s] = v
        /\ page[s] \in {"checkout", "checkin"}
        /\ Stepped(s)

\* C22: a vehicle's status and current driver change only in a checkout or a
\* checkin of that vehicle; no other operation changes either field.
C22_StatusChangesOnlyInLifecycle ==
    [][\A v \in Vehicles :
          \/ vehicles'[v].status # vehicles[v].status
          \/ vehicles'[v].currentDriverId # vehicles[v].currentDriverId
          => CheckoutOrCheckinOf(v)]_vars

\* The fields a review of the inspection may set.
ReviewFields == {"status", "reviewNotes", "reviewedAt", "updatedAt"}

\* A record without the fields a review of the inspection may set.
Frame(record) == [k \in DOMAIN record \ ReviewFields |-> record[k]]

\* C23: an inspection record, once created, stays and keeps its vehicle
\* reference, odometer and fuel snapshot, checklist items, damage reports and
\* overall condition: a step changes at most its status, its review notes
\* and its review and update timestamps.
C23_InspectionImmutableButReview ==
    [][/\ Len(inspections') >= Len(inspections)
       /\ \A k \in 1..Len(inspections) :
            Frame(inspections'[k]) = Frame(inspections[k])]_vars

C23_Witness ==
    \E k \in 1..Len(inspections) :
        /\ "reviewNotes" \in DOMAIN inspections[k]
        /\ inspections[k].status = "requires_attention"
        /\ inspections[k].damageInspection.overallCondition = "damaged"

FuelInRange(pct) == pct \in 0..100

\* C24: in every reachable state each vehicle's stored fuel level lies in
\* 0..100, and so does each fuel level written to an assignment.
C24_FuelLevelInRange ==
    /\ \A v \in Vehicles : FuelInRange(vehicles[v].fuelLevel)
    /\ \A k \in 1..Len(assignments) :
          /\ FuelInRange(assignments[k].fuelLevelStart)
          /\ "fuelLevelEnd" \in DOMAIN assignments[k]
                => FuelInRange(assignments[k].fuelLevelEnd)

\* The conditions, from best to worst.
ConditionOrder == <<"excellent", "good", "fair", "poor", "damaged">>

Rank(condition) == CHOOSE k \in 1..Len(ConditionOrder) : ConditionOrder[k] = condition

\* C25: with the conditions ordered excellent < good < fair < poor < damaged,
\* one more damage report or one more checklist item never gives a better
\* condition than before.
C25_ConditionMonotone ==
    [][Rank(probe'.outcome) >= Rank(probe.outcome)]_vars

C25_Witness ==
    /\ probe.call = "determinOverallCondition"
    /\ Len(probe.damages) = 2
    /\ probe.damages[1].severity = "critical"
    /\ Len(probe.checklistItems) = 4
    /\ \A k \in 1..4 : probe.checklistItems[k].status = "fail"
    /\ probe.outcome = "damaged"

\* Two lists of damage reports that differ in hasDamage flags at most.
SameButFlags(a, b) ==
    /\ Len(a) = Len(b)
    /\ \A k \in 1..Len(a) :
          /\ a[k].component = b[k].component
          /\ a[k].severity = b[k].severity
          /\ a[k].description = b[k].description

\* C26: the condition does not depend on the hasDamage flags: two inputs
\* that differ only in them get the same condition, and a report with
\* hasDamage false and severity critical still gives damaged.
C26_ConditionIgnoresHasDamage ==
    [][/\ SameButFlags(probe.damages, probe'.damages)
            /\ probe'.checklistItems = probe.checklistItems
            => probe'.outcome = probe.outcome
       /\ (\E k \in 1..Len(probe'.damages) :
              /\ ~probe'.damages[k].hasDamage
              /\ probe'.damages[k].severity = "critical")
            => probe'.outcome = "damaged"]_vars

C26_Witness ==
    /\ probe.call = "determinOverallCondition"
    /\ probe.step = "flagged"
    /\ Len(probe.damages) = 1
    /\ ~probe.damages[1].hasDamage
    /\ probe.damages[1].severity = "critical"
    /\ probe.outcome = "damaged"

\* C27: a damage report that createDamageReport built requires repair exactly
\* when it has damage of severity major or critical, and an inspection with a
\* report that requires repair is assessed poor or damaged.
C27_RepairRequired ==
    probe.call = "determinOverallCondition" /\ probe.step # "assessed" =>
        /\ \A k \in 1..Len(probe.damages) :
              probe.damages[k].repairRequired =
                 (/\ probe.damages[k].hasDamage
                  /\ probe.damages[k].severity \in {"major", "critical"})
        /\ (\E k \in 1..Len(probe.damages) : probe.damages[k].repairRequired)
              => probe.outcome \in {"poor", "damaged"}

C27_Witness ==
    /\ probe.call = "determinOverallCondition"
    /\ probe.step = "reported"
    /\ Len(probe.damages) = 2
    /\ probe.damages[1].severity = "minor"
    /\ probe.damages[2].severity = "major"
    /\ probe.damages[2].repairRequired
    /\ probe.outcome = "poor"

\* validateOdometerReading has returned.
OdometerReturned ==
    /\ probe.call = "validateOdometerReading"
    /\ probe.outcome # Null

\* C28: for every stored reading of 0 or more and every new reading, the
\* validation never returns both the error of a lower reading and the warning
\* of an unusually high increase.
C28_ErrorAndWarningExclusive ==
    OdometerReturned =>
        ~ /\ \E k \in 1..Len(probe.outcome.errors) :
                probe.outcome.errors[k] = "Reading cannot be lower than current reading"
          /\ \E k \in 1..Len(probe.outcome.warnings) :
                probe.outcome.warnings[k] = "Unusually high mileage increase detected"

C28_Witness ==
    /\ Validated
    /\ previousReading = UnusualIncrease + 1
    /\ probe.newReading = 0
    /\ probe.outcome.errors # <<>>
    /\ probe.outcome.warnings = <<>>

\* The stored reading the validation goes by: 0 when the vehicle has none.
StoredOrZero(vehicleDoc) ==
    IF "currentOdometer" \in DOMAIN vehicleDoc THEN vehicleDoc.currentOdometer ELSE 0

\* C29: the validation returns isValid true only when the vehicle was read
\* and the new reading is at least its stored reading, a missing one counting
\* as 0; when the vehicle does not exist or the read fails it returns isValid
\* false with a single error and no warnings.
C29_ValidationFailsClosed ==
    OdometerReturned =>
        /\ probe.outcome.isValid =>
              /\ probe.answered
              /\ probe.vehicleDoc # Null
              /\ probe.newReading >= StoredOrZero(probe.vehicleDoc)
        /\ ~probe.answered \/ probe.vehicleDoc = Null =>
              /\ probe.outcome.isValid = FALSE
              /\ Len(probe.outcome.errors) = 1
              /\ probe.outcome.warnings = <<>>

C29_Witness ==
    /\ OdometerReturned
    /\ probe.answered
    /\ probe.vehicleDoc = Null
    /\ probe.newReading = UnusualIncrease + 1
    /\ probe.outcome.isValid = FALSE
    /\ probe.outcome.errors = <<"Vehicle not found">>

\* C30: every active assignment is eventually completed: whatever state a
\* failed or abandoned checkout or checkin left, a checkin that closes the
\* assignment is or becomes enabled, and is eventually done by a user who
\* keeps at it.
C30_ActiveEventuallyCompleted ==
    \A i \in 1..MaxTrips :
        (Len(assignments) >= i /\ assignments[i].status = "active")
            ~> (Len(assignments) >= i /\ assignments[i].status = "completed")

====
